---- MODULE Spec2Model ----
(***************************************************************************)
(* Fixed-width big-integer engine of src/lab2.py (class BigInt).           *)
(*                                                                         *)
(* A BigInt is a record [size, base, value]; value is the little-endian    *)
(* digit list (value[1] models Python's value[0]).  Every operation of the *)
(* class is an operator computed the way the code computes it, and yields  *)
(* an outcome: [status |-> "ok", val |-> <BigInt>] on a normal return or   *)
(* [status |-> <exception name>, val |-> NoValue] when the code raises; an  *)
(* exception raised by a sub-expression propagates to the caller.          *)
(* The machine picks two operands, runs one operation and records the      *)
(* outcome; gcd (and lcm, which calls it) is run one loop iteration at a   *)
(* time so that termination can be checked.                                *)
(***************************************************************************)
EXTENDS Integers, Sequences, FiniteSets, TLC

\* Digit capacity of every value: the default `size` of __init__ (2048 in
\* the source), scaled down.
Size == 3

\* Radix of every value: the default `base` of __init__ (10 in the source),
\* scaled down.
Base == 3

\* Largest native exponent handed to mod_pow.
MaxExp == 2

\* Native integers handed to the integer constructor lie in
\* -MaxInt .. Base^Size + MaxInt, so truncation and negatives both occur.
MaxInt == 2

VARIABLES a, b, m, n, op, pc, ga, gb, called, result

vars == <<a, b, m, n, op, pc, ga, gb, called, result>>

----------------------------------------------------------------------------
\* Values and outcomes

Digits == 0 .. (Base - 1)

RECURSIVE Pow(_, _)
Pow(x, e) == IF e = 0 THEN 1 ELSE x * Pow(x, e - 1)

\* [0] * size
ZeroDigits == [i \in 1 .. Size |-> 0]

\* BigInt(value=<list>): default size and base, the list copied verbatim.
BigIntOf(digits) == [size |-> Size, base |-> Base, value |-> digits]

\* from_int: value[i] = num % base; num //= base, for i in range(size).
RECURSIVE from_int_loop(_, _, _)
from_int_loop(value, num, i) ==
    IF i > Size THEN value
    ELSE from_int_loop([value EXCEPT ![i] = num % Base], num \div Base, i + 1)

\* BigInt(<int>)
BigInt(num) == BigIntOf(from_int_loop(ZeroDigits, num, 1))

\* BigInt()
Zero == BigInt(0)

\* BigInt(1)
One == BigInt(1)

\* __eq__ compares the digit lists only.
Eq(x, y) == x.value = y.value

NoValue == [size |-> 0, base |-> 0, value |-> << >>]

Ok(v) == [status |-> "ok", val |-> v]

Raise(e) == [status |-> e, val |-> NoValue]

NoResult == [status |-> "none", val |-> NoValue]

\* Every well-formed operand: exactly Size digits, each in [0, Base).
BigInts == {BigIntOf(d) : d \in [1 .. Size -> Digits]}

\* The integer a digit list stands for (little-endian), used to state claims.
RECURSIVE ValueOf(_)
ValueOf(digits) ==
    IF Len(digits) = 0 THEN 0
    ELSE Head(digits) + Base * ValueOf(Tail(digits))

Modulus == Pow(Base, Size)

----------------------------------------------------------------------------
\* Core arithmetic

\* add_loop with the carry never propagated to the next digit.
RECURSIVE add_loop_no_carry(_, _, _, _, _)
add_loop_no_carry(self, other, value, carry, i) ==
    IF i > self.size THEN value
    ELSE LET temp_sum == self.value[i] + other.value[i]
         IN add_loop_no_carry(self, other,
                              [value EXCEPT ![i] = temp_sum % self.base],
                              0, i + 1)

\* __add__
RECURSIVE add_loop(_, _, _, _, _)
add_loop(self, other, value, carry, i) ==
    IF i > self.size THEN value
    ELSE LET temp_sum == self.value[i] + other.value[i] + carry
         IN add_loop(self, other,
                     [value EXCEPT ![i] = temp_sum % self.base],
                     temp_sum \div self.base, i + 1)

Add(self, other) == BigIntOf(add_loop(self, other, Zero.value, 0, 1))

\* __sub__
RECURSIVE sub_loop(_, _, _, _, _)
sub_loop(self, other, value, borrow, i) ==
    IF i > self.size THEN value
    ELSE LET temp_diff == self.value[i] - other.value[i] - borrow
         IN IF temp_diff < 0
            THEN sub_loop(self, other,
                          [value EXCEPT ![i] = temp_diff + self.base], 1, i + 1)
            ELSE sub_loop(self, other,
                          [value EXCEPT ![i] = temp_diff], 0, i + 1)

Sub(self, other) == BigIntOf(sub_loop(self, other, Zero.value, 0, 1))

\* __mul__: i and j are the code's 0-based loop indices; the result list has
\* self.size entries, so the write to position i + j + 1 (0-based) is out of
\* range when i + j = size - 1 and the code raises IndexError there.
RECURSIVE mul_loop(_, _, _, _, _)
mul_loop(self, other, value, i, j) ==
    IF i >= self.size THEN Ok(BigIntOf(value))
    ELSE IF j >= self.size - i THEN mul_loop(self, other, value, i + 1, 0)
    ELSE LET v1 == [value EXCEPT
                      ![i + j + 1] = @ + self.value[i + 1] * other.value[j + 1]]
         IN IF i + j + 2 > Len(value) THEN Raise("IndexError")
            ELSE LET v2 == [v1 EXCEPT ![i + j + 2] = @ + (v1[i + j + 1] \div self.base)]
                     v3 == [v2 EXCEPT ![i + j + 1] = @ % self.base]
                 IN mul_loop(self, other, v3, i, j + 1)

Mul(self, other) == mul_loop(self, other, Zero.value, 0, 0)

\* __rshift__: BigInt(value=self.value[shift:])
Rshift(self, shift) ==
    BigIntOf(SubSeq(self.value, shift + 1, Len(self.value)))

----------------------------------------------------------------------------
\* Reduction

\* mod_loop with the loop written range(size - 1, 0, -1): digit 0 is never
\* reduced and its divisor digit never looked at.
RECURSIVE mod_loop_stop_early(_, _, _, _)
mod_loop_stop_early(self, mod, value, j) ==
    IF j < 1 THEN Ok(BigIntOf(value))
    ELSE IF mod.value[j + 1] = 0 THEN Raise("ValueError")
    ELSE LET v1 == [value EXCEPT ![j + 1] = @ % mod.value[j + 1]]
             borrow == (v1[j] + v1[j + 1] * self.base) \div mod.value[j + 1]
         IN mod_loop_stop_early(self, mod, [v1 EXCEPT ![j] = @ - borrow], j - 1)

\* mod_loop with the loop written range(size - 1, -1): the range is empty and
\* the copy of self is returned unreduced.
mod_loop_empty_range(self, mod, value, j) == Ok(BigIntOf(value))

\* The try-block of __mod__: j is the code's 0-based index, running from
\* size - 1 down to 0; a zero divisor digit raises ZeroDivisionError, which
\* the except clause turns into ValueError.
RECURSIVE mod_loop(_, _, _, _)
mod_loop(self, mod, value, j) ==
    IF j < 0 THEN Ok(BigIntOf(value))
    ELSE IF mod.value[j + 1] = 0 THEN Raise("ValueError")
    ELSE LET v1 == [value EXCEPT ![j + 1] = @ % mod.value[j + 1]]
         IN IF j > 0
            THEN LET borrow == (v1[j] + v1[j + 1] * self.base) \div mod.value[j + 1]
                 IN mod_loop(self, mod, [v1 EXCEPT ![j] = @ - borrow], j - 1)
            ELSE mod_loop(self, mod, v1, j - 1)

\* __mod__ with the zero test of self placed before the zero test of mod.
ModSelfZeroFirst(self, mod) ==
    IF Eq(self, Zero) THEN Ok(Zero)
    ELSE IF Eq(mod, Zero) \/ Eq(mod, BigInt(0)) THEN Raise("ValueError")
    ELSE mod_loop(self, mod, self.value, self.size - 1)

\* __mod__ without the early returns for a zero self.
ModNoZeroSelf(self, mod) ==
    IF Eq(mod, Zero) \/ Eq(mod, BigInt(0)) THEN Raise("ValueError")
    ELSE mod_loop(self, mod, self.value, self.size - 1)

\* __mod__
Mod(self, mod) ==
    IF Eq(mod, Zero) \/ Eq(mod, BigInt(0)) THEN Raise("ValueError")
    ELSE IF Eq(self, Zero) THEN Ok(Zero)
    ELSE IF \A i \in 1 .. Len(self.value) : self.value[i] = 0 THEN Ok(Zero)
    ELSE mod_loop(self, mod, self.value, self.size - 1)

----------------------------------------------------------------------------
\* Modular layer

\* mod_add
mod_add(self, other, mod) == Mod(Add(self, other), mod)

\* mod_sub
mod_sub(self, other, mod) == Mod(Sub(self, other), mod)

\* The while-loop of mod_pow; exponent is a native integer.
RECURSIVE mod_pow_loop(_, _, _, _)
mod_pow_loop(res, base_power, exponent, mod) ==
    IF ~(exponent > 0) THEN Ok(res)
    ELSE LET prod == Mul(res, base_power)
             r1 == IF exponent % 2 = 1
                   THEN (IF prod.status = "ok" THEN Mod(prod.val, mod) ELSE prod)
                   ELSE Ok(res)
             square == Mul(base_power, base_power)
             bp == IF square.status = "ok" THEN Mod(square.val, mod) ELSE square
         IN IF r1.status # "ok" THEN r1
            ELSE IF bp.status # "ok" THEN bp
            ELSE mod_pow_loop(r1.val, bp.val, exponent \div 2, mod)

\* mod_pow
mod_pow(self, exponent, mod) ==
    LET base_power == Mod(self, mod)
    IN IF base_power.status # "ok" THEN base_power
       ELSE mod_pow_loop(BigInt(1), base_power.val, exponent, mod)

\* The tail of lcm once gcd_ab is known: the product is evaluated first; the
\* class defines no __floordiv__, so `//` on two BigInts raises TypeError.
lcm_tail(self, other, gcd_ab) ==
    IF Eq(gcd_ab, Zero) THEN Ok(Zero)
    ELSE LET product == Mul(self, other)
         IN IF product.status # "ok" THEN product ELSE Raise("TypeError")

----------------------------------------------------------------------------
\* The machine

IntInputs == (0 - MaxInt) .. (Modulus + MaxInt)

\* Moduli handed to mod_add / mod_sub: small integers stored in the
\* least-significant digits, up to Base^2 (the analogue of BigInt(100)).
SmallModuli == {BigInt(k) : k \in {0, 1, Base - 1, Base, Base + 1, Base * Base}}

Init ==
    /\ a = Zero
    /\ b = Zero
    /\ m = Zero
    /\ n = 0
    /\ op = "none"
    /\ pc = "start"
    /\ ga = Zero
    /\ gb = Zero
    /\ called = FALSE
    /\ result = NoResult

Finish(name, outcome) ==
    /\ op' = name
    /\ result' = outcome
    /\ pc' = IF outcome.status = "ok" THEN "done" ELSE "error"
    /\ UNCHANGED <<a, b, ga, gb, called>>

\* The caller builds the two operands, BigInt(value=<list of Size digits>).
Construct ==
    /\ pc = "start"
    /\ a' \in BigInts
    /\ b' \in BigInts
    /\ pc' = "idle"
    /\ UNCHANGED <<m, n, op, ga, gb, called, result>>

\* BigInt(k) for a native integer k
DoFromInt ==
    /\ pc = "start"
    /\ \E k \in IntInputs :
          /\ n' = k
          /\ Finish("from_int", Ok(BigInt(k)))
    /\ UNCHANGED m

\* a + b
DoAdd ==
    /\ pc = "idle"
    /\ Finish("add", Ok(Add(a, b)))
    /\ UNCHANGED <<m, n>>

\* a - b
DoSub ==
    /\ pc = "idle"
    /\ Finish("sub", Ok(Sub(a, b)))
    /\ UNCHANGED <<m, n>>

\* a * b
DoMul ==
    /\ pc = "idle"
    /\ Finish("mul", Mul(a, b))
    /\ UNCHANGED <<m, n>>

\* a >> k
DoRshift ==
    /\ pc = "idle"
    /\ \E k \in 0 .. Size :
          /\ n' = k
          /\ Finish("rshift", Ok(Rshift(a, k)))
    /\ UNCHANGED m

\* a % b
DoMod ==
    /\ pc = "idle"
    /\ Finish("mod", Mod(a, b))
    /\ UNCHANGED <<m, n>>

\* a.mod_add(b, mod)
DoModAdd ==
    /\ pc = "idle"
    /\ \E mod \in SmallModuli :
          /\ m' = mod
          /\ Finish("mod_add", mod_add(a, b, mod))
    /\ UNCHANGED n

\* a.mod_sub(b, mod)
DoModSub ==
    /\ pc = "idle"
    /\ \E mod \in SmallModuli :
          /\ m' = mod
          /\ Finish("mod_sub", mod_sub(a, b, mod))
    /\ UNCHANGED n

\* a.mod_pow(e, b)
DoModPow ==
    /\ pc = "idle"
    /\ \E e \in 0 .. MaxExp :
          /\ n' = e
          /\ Finish("mod_pow", mod_pow(a, e, b))
    /\ UNCHANGED m

\* Entry of a.gcd(b), called directly or from a.lcm(b): the entry test
\* `if b == BigInt(): return a`.
GcdEntry ==
    /\ pc = "idle"
    /\ \E name \in {"gcd", "lcm"} : op' = name
    /\ ga' = a
    /\ gb' = b
    /\ pc' = IF Eq(b, Zero) THEN "gcd_ret" ELSE "gcd_loop"
    /\ UNCHANGED <<a, b, m, n, called, result>>

\* One test of `while b != BigInt()` and, when it passes, one iteration
\* `a, b = b, a % b`.
GcdLoop ==
    /\ pc = "gcd_loop"
    /\ IF Eq(gb, Zero)
       THEN /\ pc' = "gcd_ret"
            /\ UNCHANGED <<ga, gb, called, result>>
       ELSE LET r == Mod(ga, gb)
            IN /\ called' = TRUE
               /\ IF r.status = "ok"
                  THEN /\ ga' = gb
                       /\ gb' = r.val
                       /\ pc' = "gcd_loop"
                       /\ UNCHANGED result
                  ELSE /\ result' = r
                       /\ pc' = "error"
                       /\ UNCHANGED <<ga, gb>>
    /\ UNCHANGED <<a, b, m, n, op>>

\* `return a` of gcd, when gcd was the operation called.
GcdReturn ==
    /\ pc = "gcd_ret"
    /\ op = "gcd"
    /\ result' = Ok(ga)
    /\ pc' = "done"
    /\ UNCHANGED <<a, b, m, n, op, ga, gb, called>>

\* The rest of lcm after gcd returned gcd_ab.
LcmTail ==
    /\ pc = "gcd_ret"
    /\ op = "lcm"
    /\ result' = lcm_tail(a, b, ga)
    /\ pc' = IF result'.status = "ok" THEN "done" ELSE "error"
    /\ UNCHANGED <<a, b, m, n, op, ga, gb, called>>

Next ==
    \/ Construct
    \/ DoFromInt
    \/ DoAdd
    \/ DoSub
    \/ DoMul
    \/ DoRshift
    \/ DoMod
    \/ DoModAdd
    \/ DoModSub
    \/ DoModPow
    \/ GcdEntry
    \/ GcdLoop
    \/ GcdReturn
    \/ LcmTail

Spec == Init /\ [][Next]_vars

\* gcd and lcm alone, for termination.  The interpreter runs a started
\* operation to its end (single-threaded, synchronous code with no
\* suspension points), hence weak fairness of the steps.
GcdNext ==
    \/ Construct
    \/ GcdEntry
    \/ GcdLoop
    \/ GcdReturn
    \/ LcmTail

GcdSpec == Init /\ [][GcdNext]_vars /\ WF_vars(GcdNext)

----------------------------------------------------------------------------
\* Properties

Finished == pc \in {"done", "error"}

InRange(v) == \A i \in 1 .. Len(v.value) : v.value[i] \in Digits

HasZeroDigit(v) == \E i \in 1 .. Len(v.value) : v.value[i] = 0

\* C1: x % m with m the all-zero value raises ValueError for every x, zero
\* or not, whether % is applied directly or through mod_add, mod_sub or
\* mod_pow; it never returns and never raises another error.
C1_ZeroModulusRaises ==
    /\ (op = "mod" /\ Eq(b, Zero)) => result.status = "ValueError"
    /\ (op \in {"mod_add", "mod_sub"} /\ Eq(m, Zero)) => result.status = "ValueError"
    /\ (op = "mod_pow" /\ Eq(b, Zero)) => result.status = "ValueError"

C1_Witness ==
    op = "mod" /\ Eq(a, Zero) /\ Eq(b, Zero) /\ result.status = "ValueError"

\* C2 (as claimed): a * Zero returns normally and equals Zero.
C2_MulZeroIsZero ==
    (op = "mul" /\ Eq(b, Zero)) => (result.status = "ok" /\ Eq(result.val, Zero))

\* C3: a + b is the Size-digit representation of (a + b) mod Base^Size and
\* a - b that of (a - b) mod Base^Size; with b = Zero both equal a.
C3_AddSubWrap ==
    /\ op = "add" =>
          /\ result.status = "ok"
          /\ Len(result.val.value) = Size
          /\ InRange(result.val)
          /\ ValueOf(result.val.value) = (ValueOf(a.value) + ValueOf(b.value)) % Modulus
          /\ (Eq(b, Zero) => Eq(result.val, a))
    /\ op = "sub" =>
          /\ result.status = "ok"
          /\ Len(result.val.value) = Size
          /\ InRange(result.val)
          /\ ValueOf(result.val.value) = (ValueOf(a.value) - ValueOf(b.value)) % Modulus
          /\ (Eq(b, Zero) => Eq(result.val, a))

\* A difference that borrows out of the top digit (a < b) has been returned.
C3_Witness ==
    /\ op = "sub" /\ pc = "done"
    /\ ValueOf(a.value) < ValueOf(b.value)
    /\ ValueOf(result.val.value) = ValueOf(a.value) - ValueOf(b.value) + Modulus

\* C4: gcd(a, Zero) returns a at entry, before any %; gcd(Zero, b) with b
\* nonzero runs the loop until b is Zero and returns the original b, and
\* never raises.
C4_GcdZeroOperand ==
    /\ (op = "gcd" /\ Eq(b, Zero)) =>
          /\ pc \in {"gcd_ret", "done"}
          /\ ~called
          /\ (pc = "done" => result.status = "ok" /\ Eq(result.val, a))
    /\ (op = "gcd" /\ Eq(a, Zero) /\ ~Eq(b, Zero)) =>
          /\ pc # "error"
          /\ (pc = "done" =>
                /\ result.status = "ok"
                /\ Eq(result.val, b)
                /\ called
                /\ Eq(gb, Zero))

\* gcd(Zero, b) returned b, for a b that has a zero digit.
C4_Witness ==
    /\ op = "gcd" /\ pc = "done"
    /\ Eq(a, Zero) /\ ~Eq(b, Zero) /\ HasZeroDigit(b)
    /\ Eq(result.val, b)

\* C5 (as claimed): lcm(a, Zero) returns normally and equals Zero.
C5_LcmZeroIsZero ==
    (op = "lcm" /\ Finished /\ Eq(b, Zero)) =>
        (result.status = "ok" /\ Eq(result.val, Zero))

\* C6 (as claimed): mod_pow(a, 0, m) returns One for every a and nonzero m.
C6_ModPowZeroExponent ==
    (op = "mod_pow" /\ n = 0 /\ ~Eq(b, Zero)) =>
        (result.status = "ok" /\ Eq(result.val, One))

\* C7 (as claimed): for a small nonzero modulus m in the low digits,
\* mod_add and mod_sub return (a + b) mod m and (a - b) mod m without error.
C7_ModAddSubExact ==
    /\ (op = "mod_add" /\ ~Eq(m, Zero)) =>
          /\ result.status = "ok"
          /\ ValueOf(result.val.value) =
                (ValueOf(a.value) + ValueOf(b.value)) % ValueOf(m.value)
    /\ (op = "mod_sub" /\ ~Eq(m, Zero)) =>
          /\ result.status = "ok"
          /\ ValueOf(result.val.value) =
                (ValueOf(a.value) - ValueOf(b.value)) % ValueOf(m.value)

\* C8 (as claimed): every value built from an integer or returned by +, -,
\* >> or % has exactly `size` digits, each in [0, Base).
C8_RepInvariant ==
    (op \in {"from_int", "add", "sub", "rshift", "mod"} /\ result.status = "ok") =>
        /\ Len(result.val.value) = result.val.size
        /\ result.val.size = a.size
        /\ InRange(result.val)

\* C9: every call of gcd leaves its loop: it returns or a % raises.
C9_GcdTerminates == (pc = "gcd_loop") ~> Finished

\* The loop has run one iteration and has another one to run.
C9_Witness == op = "gcd" /\ pc = "gcd_loop" /\ called /\ ~Eq(gb, Zero)

====
